---- MODULE Spec2Model ----
(***************************************************************************)
(* Model of the multi-document invoice renderer (package generator):       *)
(* MultiDocument.Build and the blocks it renders, the shared header and    *)
(* footer page callbacks, and the contact block.  The page stream is the   *)
(* fpdf document the renderer draws on; its cursor, margins, registered    *)
(* page callbacks and the draw calls made on each page are the state.      *)
(* Lengths are in thousandths of a millimetre.                             *)
(***************************************************************************)
EXTENDS Integers, Sequences, FiniteSets, TLC

\* ------------------------------------------------------------------------
\* Bounds of the model
\* ------------------------------------------------------------------------
MaxDocs == 3
MaxItems == 29
MaxNotesLines == 3
MaxInfoLines == 2
MaxTotalItems == 2

\* ------------------------------------------------------------------------
\* Program constants
\* ------------------------------------------------------------------------
MM == 1000
BaseMargin == 10 * MM
BaseMarginTop == 20 * MM
HeaderMarginTop == 5 * MM
MaxPageHeight == 260 * MM
\* fpdf.New("P", "mm", "A4", ""): page height, default margin of 28.35pt on
\* the left, top and right, automatic page break at twice that margin
PageHeight == 297 * MM
PageWidth == 210 * MM
DefaultMargin == 10001
PageBreakTrigger == PageHeight - 2 * DefaultMargin
\* line height of the notes text: a 12pt font, in millimetres
NotesLineHt == 4233
\* the footer band starts at 287mm less the header margin
FooterBase == 287 * MM

NoFnc == [kind |-> "none", doc |-> 0]

\* ------------------------------------------------------------------------
\* The page stream (fpdf.Fpdf): primitives used by the renderer
\* ------------------------------------------------------------------------
\* a draw call that shows no number
NoVal == 0 - 1

\* one draw call: what is drawn, on which page, for which document, where
NewOp(kind, page, d, x, y, h) ==
  [kind |-> kind, page |-> page, doc |-> d, x |-> x, y |-> y, h |-> h, val |-> NoVal,
   pre |-> <<>>, post |-> <<>>]

NewFpdf ==
  [page |-> 0, x |-> DefaultMargin, y |-> DefaultMargin,
   lMargin |-> DefaultMargin, tMargin |-> DefaultMargin, rMargin |-> DefaultMargin,
   headerFnc |-> NoFnc, footerFnc |-> NoFnc,
   js |-> FALSE, closed |-> FALSE, colors |-> {}, images |-> {}, pageDoc |-> <<>>, ops |-> <<>>]

SetX(p, x) == [p EXCEPT !.x = IF x >= 0 THEN x ELSE PageWidth + x]

SetY(p, y) == [p EXCEPT !.x = p.lMargin, !.y = IF y >= 0 THEN y ELSE PageHeight + y]

SetXY(p, x, y) == SetX(SetY(p, y), x)

SetTopMargin(p, m) == [p EXCEPT !.tMargin = m]

SetLeftMargin(p, m) == [p EXCEPT !.lMargin = m, !.x = IF p.page > 0 /\ p.x < m THEN m ELSE p.x]

SetRightMargin(p, m) == [p EXCEPT !.rMargin = m]

SetMargins(p, l, t, r) == [p EXCEPT !.lMargin = l, !.tMargin = t, !.rMargin = r]

Draw(p, kind, d, h) == [p EXCEPT !.ops = Append(p.ops, NewOp(kind, p.page, d, p.x, p.y, h))]

\* Rect(x, GetY(), w, h, "F"): a filled rectangle at the cursor's ordinate
Rect(p, kind, d, h) == Draw(p, kind, d, h)

\* the number the last cell drawn shows
Shows(p, v) == [p EXCEPT !.ops[Len(p.ops)].val = v]

SetColor(p, which, arr, rgb) == [p EXCEPT !.colors = p.colors \cup {[call |-> which, arr |-> arr, rgb |-> rgb]}]

Cursor(p) == <<p.x, p.y, p.lMargin, p.tMargin, p.rMargin>>

\* ------------------------------------------------------------------------
\* Header and footer page callbacks (HeaderFooter.applyHeader / applyFooter)
\* ------------------------------------------------------------------------
\* html.Write of the header or footer text at the cursor; pre is the cursor
\* and the margins the callback found
WriteText(p, kind, d, pre) ==
  [p EXCEPT !.ops = Append(p.ops, [NewOp(kind, p.page, d, p.x, p.y, 0) EXCEPT !.pre = pre])]

\* the end of both closures: cursor back, margins to the base values; the
\* cursor and margins the callback leaves are noted on its draw call
RestoreCursor(p, currentX, currentY) ==
  SetMargins(SetX(SetY(p, currentY), currentX), BaseMargin, BaseMarginTop, BaseMargin)

NotePost(p) == [p EXCEPT !.ops[Len(p.ops)].post = Cursor(p)]

\* the header band
HeaderBand(p) ==
  SetRightMargin(SetLeftMargin(SetY(SetTopMargin(p, HeaderMarginTop), HeaderMarginTop), BaseMargin), BaseMargin)

\* the closure registered by applyHeader
HeaderFunc(p, fnc) ==
  NotePost(RestoreCursor(WriteText(HeaderBand(p), "header", fnc.doc, Cursor(p)), p.x, p.y))

\* the footer band
FooterBand(p) == SetY(SetTopMargin(p, HeaderMarginTop), FooterBase - HeaderMarginTop)

\* the closure registered by applyFooter
FooterFunc(p, fnc) ==
  NotePost(RestoreCursor(WriteText(FooterBand(p), "footer", fnc.doc, Cursor(p)), p.x, p.y))

\* a function the caller registered with ApplyFunc: it draws, and is taken
\* to leave the cursor and the margins alone
CustomFunc(p, fnc) == Draw(p, "custom", fnc.doc, 0)

RunHeader(p) ==
  CASE p.headerFnc.kind = "builtin" -> HeaderFunc(p, p.headerFnc)
    [] p.headerFnc.kind = "custom" -> CustomFunc(p, p.headerFnc)
    [] OTHER -> p

RunFooter(p) ==
  CASE p.footerFnc.kind = "builtin" -> FooterFunc(p, p.footerFnc)
    [] p.footerFnc.kind = "custom" -> CustomFunc(p, p.footerFnc)
    [] OTHER -> p

\* the new page: cursor at the left and top margins; pageDoc records the
\* document being built when the page was started
BeginPage(p, d) ==
  [p EXCEPT !.page = p.page + 1, !.x = p.lMargin, !.y = p.tMargin, !.pageDoc = Append(p.pageDoc, d)]

\* fpdf.AddPage: footer of the page being closed, the new page, then the
\* header of the new page
AddPage(p, d) == RunHeader(BeginPage(IF p.page > 0 THEN RunFooter(p) ELSE p, d))

MarkClosed(p) == [p EXCEPT !.closed = TRUE]

\* fpdf.Close (OutputFileAndClose): footer of the last page
Close(p) == MarkClosed(RunFooter(IF p.page = 0 THEN AddPage(p, 0) ELSE p))

\* the cursor after a cell: ln = 0 moves right, ln = 2 moves below
AfterCell(p, w, h, ln) == IF ln = 0 THEN [p EXCEPT !.x = p.x + w] ELSE [p EXCEPT !.y = p.y + h]

\* one statement after another: the stream a call leaves is the stream the
\* next call finds
After(streams) == CHOOSE after \in streams : TRUE

\* CellFormat(w, h, ..., ln): automatic page break (keeping the abscissa)
\* when the cell does not fit above the bottom margin, then the cell
CellFormat(p, w, h, ln, kind, d) ==
  AfterCell(Draw(IF p.y + h > PageBreakTrigger THEN SetX(AddPage(p, d), p.x) ELSE p, kind, d, h), w, h, ln)

\* MultiCell(w, h, text, ...): one cell per line of the text, each below
\* the last; the cursor returns to the left margin
RECURSIVE MultiCellLines(_, _, _, _, _, _, _)
MultiCellLines(p, w, h, n, kind, more, d) ==
  IF n = 0 THEN p
  ELSE After({ MultiCellLines(cell, w, h, n - 1, more, more, d) : cell \in {CellFormat(p, w, h, 2, kind, d)} })

ToLeftMargin(p) == [p EXCEPT !.x = p.lMargin]

MultiCell(p, w, h, n, kind, more, d) == ToLeftMargin(MultiCellLines(p, w, h, n, kind, more, d))

\* SetY(GetY() + dy)
MoveDown(p, dy) == SetY(p, p.y + dy)

\* SetXY(x, GetY() + dy)
SetXYBelow(p, x, dy) == SetXY(p, x, p.y + dy)

\* SetX(10) and SetY(GetY() + dy)
NextLine(p, dy) == SetY(SetX(p, 10 * MM), p.y + dy)

\* ------------------------------------------------------------------------
\* Colors (Options color arrays and their fallbacks)
\* ------------------------------------------------------------------------
DefaultDark == <<0, 0, 0>>
DefaultGreyBg == <<240, 240, 240>>
DefaultBaseText == <<35, 35, 35>>
DefaultGreyText == <<128, 128, 128>>

getSafeColor(color, defaultColor) == IF Len(color) >= 3 THEN color ELSE defaultColor

\* SetFillColor(c[0], c[1], c[2]) / SetTextColor(c[0], c[1], c[2])
SetFillColor(p, arr, c) == SetColor(p, "fill", arr, <<c[1], c[2], c[3]>>)
SetTextColor(p, arr, c) == SetColor(p, "text", arr, <<c[1], c[2], c[3]>>)

\* ------------------------------------------------------------------------
\* Contact block (Contact.appendContactTODoc)
\* ------------------------------------------------------------------------
\* Address.ToString: street line, optional second line, postal code and
\* city line, optional country line
AddressLines(c) == 1 + (IF c.Address2 THEN 1 ELSE 0) + 1 + (IF c.Country THEN 1 ELSE 0)

\* the height of the background rectangle, summed before drawing
totalHeight(c) ==
  10 * MM
  + (IF c.Phone THEN 5 * MM ELSE 0)
  + (IF c.Address
       THEN (17 + (IF c.Address2 THEN 5 ELSE 0) - (IF c.Country THEN 0 ELSE 5)) * MM
       ELSE 0)
  + (IF c.Info >= 0 THEN c.Info * 3 * MM + 2 * MM ELSE 0)

\* doc.Options.GreyBgColor[0..2] is read without a length check
ContactColorPanics(opts) == Len(opts.GreyBgColor) < 3

DrawLogo(p, c, y, d) ==
  IF c.Logo = "ok"
    THEN [p EXCEPT !.ops = Append(p.ops, NewOp("logo", p.page, d, p.x, y - 30 * MM, 30 * MM)),
                   !.images = p.images \cup {<<"logo", d>>}]
    ELSE p

\* the block up to the point where the fill color is read
appendContactLogo(p, c, x, y, d) == DrawLogo(SetXY(p, x, y), c, y, d)

contactPhone(p, c, x, d) ==
  IF c.Phone
    THEN CellFormat(SetXYBelow(p, x, 10 * MM), 80 * MM, 5 * MM, 0, "contactPhone", d)
    ELSE p

contactAddress(p, c, x, d) ==
  IF c.Address
    THEN MultiCell(SetXYBelow(p, x, 5 * MM), 80 * MM, 5 * MM, AddressLines(c),
                   "contactAddress", "contactAddress", d)
    ELSE p

contactInfo(p, c, x, d) ==
  IF c.Info >= 0
    THEN SetXYBelow(MultiCell(SetXYBelow(SetXYBelow(p, x, 0), x, 2 * MM), 80 * MM, 3 * MM, c.Info,
                              "contactInfo", "contactInfo", d), x, 0)
    ELSE p

\* the whole block; its result's y is the value the Go function returns
appendContactTODoc(p, c, x, y, d, opts) ==
  LET p1 == appendContactLogo(p, c, x, y, d)
      p2 == SetFillColor(p1, "GreyBgColor", opts.GreyBgColor)
      p3 == SetX(p2, x)
      p4 == Rect(p3, "contactRect", d, totalHeight(c))
      p5 == CellFormat(p4, 80 * MM, 10 * MM, 0, "contactName", d)
      p6 == contactPhone(p5, c, x, d)
      p7 == contactAddress(p6, c, x, d)
  IN  contactInfo(p7, c, x, d)

appendCompanyContactToDoc(p, doc, d, opts) == appendContactTODoc(p, doc.Company, 10 * MM, BaseMarginTop + 28 * MM, d, opts)

appendCustomerContactToDoc(p, doc, d, opts) == appendContactTODoc(p, doc.Customer, 120 * MM, BaseMarginTop + 28 * MM, d, opts)

\* ------------------------------------------------------------------------
\* Blocks of one document (MultiDocument.append...)
\* ------------------------------------------------------------------------
\* Document.Validate: the required fields are present
Validate(doc) == doc.Company.Name /\ doc.Customer.Name

appendTitle(p, d, opts) ==
  LET p1 == SetXY(p, 120 * MM, BaseMarginTop)
      darkColor == getSafeColor(opts.DarkBgColor, DefaultDark)
      p2 == SetFillColor(p1, "DarkBgColor", darkColor)
      p3 == Rect(p2, "titleRect", d, 10 * MM)
  IN  CellFormat(p3, 80 * MM, 10 * MM, 0, "title", d)

appendMetas(p, d) ==
  LET p1 == CellFormat(SetXY(p, 120 * MM, BaseMarginTop + 11 * MM), 80 * MM, 4 * MM, 0, "metaRef", d)
  IN  CellFormat(SetXY(p1, 120 * MM, BaseMarginTop + 15 * MM), 80 * MM, 4 * MM, 0, "metaDate", d)

appendDescription(p, doc, d) ==
  IF doc.Description
    THEN MultiCell(MoveDown(p, 5 * MM), 190 * MM, 5 * MM, 1, "description", "description", d)
    ELSE p

drawsTableTitles(p, d, opts) ==
  LET p1 == NextLine(p, 5 * MM)
      greyColor == getSafeColor(opts.GreyBgColor, DefaultGreyBg)
      p2 == SetFillColor(p1, "GreyBgColor", greyColor)
      p3 == Rect(p2, "tableTitles", d, 6 * MM)
  IN  CellFormat(SetX(p3, 10 * MM), 190 * MM, 6 * MM, 0, "tableTitleCells", d)

\* the part of appendItems before the loop
appendItemsHead(p, d, opts) == NextLine(drawsTableTitles(p, d, opts), 8 * MM)

\* the end of Item.appendColTo: the cursor at the bottom of the row
rowBottom(p, baseY) == SetY(p, baseY + (p.y - baseY))

\* nil for a *Tax, and the unset string of a Discount field
NilTax == 0 - 1
Unset == 0 - 1

\* the tax column of the row, showing the item's tax
taxCell(p, it, d) == Shows(CellFormat(SetX(p, 150 * MM), 20 * MM, 3 * MM, 0, "itemTax", d), it.Tax)

\* Item.appendColTo: the tax cell, the name and description lines, 3mm
\* each, then the cursor at the bottom of the row
appendColTo(p, it, d) ==
  rowBottom(MultiCell(SetX(taxCell(p, it, d), 10 * MM), 80 * MM, 3 * MM, it.Lines, "item", "itemDescription", d), p.y)

\* every item taking the tax of the document
withDefaultTaxAlways(it, doc) == [it EXCEPT !.Tax = doc.DefaultTax]

\* if item.Tax == nil { item.Tax = doc.DefaultTax }
withDefaultTax(it, doc) == IF it.Tax = NilTax THEN [it EXCEPT !.Tax = doc.DefaultTax] ELSE it

\* the page break without the table header row on the new page
pageBreakAfterRowNoTitles(p, d, opts) ==
  IF p.y > MaxPageHeight THEN AddPage(p, d) ELSE p

\* the page break taken already at MaxPageHeight
pageBreakAfterRowAtLimit(p, d, opts) ==
  IF p.y >= MaxPageHeight THEN drawsTableTitles(AddPage(p, d), d, opts) ELSE p

\* the page break of the loop of appendItems
pageBreakAfterRow(p, d, opts) ==
  IF p.y > MaxPageHeight THEN drawsTableTitles(AddPage(p, d), d, opts) ELSE p

\* one pass of the loop of appendItems
appendItemsRow(p, it, d, opts) == NextLine(pageBreakAfterRow(appendColTo(p, it, d), d, opts), 6 * MM)

\* buildDocument between appendItems and appendBarcode
trailingPageBreak(p, doc, d) ==
  LET offset == p.y + 30 * MM + (IF ~doc.Discount.isNil THEN 15 * MM ELSE 0)
  IN  IF offset > MaxPageHeight THEN AddPage(p, d) ELSE p

\* RegisterImageOptionsReader(fileName, ...): the image is known by its name
RegisterImage(p, fileName) == [p EXCEPT !.images = p.images \cup {fileName}]

DrawBarcode(p, d, y) ==
  RegisterImage([p EXCEPT !.ops = Append(p.ops, NewOp("barcode", p.page, d, 10 * MM, y, 20 * MM))], <<"barcode", d>>)

\* the barcode block drawn whatever the payload is
appendBarcodeAlways(p, doc, d) ==
  LET currentY == p.y
      y == currentY + 10 * MM
      p1 == DrawBarcode(p, d, y)
      p2 == SetX(SetY(p1, y + 21 * MM), 10 * MM + 30 * MM)
      p3 == CellFormat(p2, 15 * MM, 4 * MM, 0, "barcodeText", d)
  IN  SetY(p3, currentY)

\* the barcode block drawn although generateBarcode returned an error
appendBarcodeIgnoringError(p, doc, d) ==
  IF doc.BarCode = "empty" THEN p ELSE appendBarcodeAlways(p, doc, d)

appendBarcode(p, doc, d) ==
  IF doc.BarCode # "ok" THEN p
  ELSE LET currentY == p.y
           y == currentY + 10 * MM
           p1 == DrawBarcode(p, d, y)
           p2 == SetX(SetY(p1, y + 21 * MM), 10 * MM + 30 * MM)
           p3 == CellFormat(p2, 15 * MM, 4 * MM, 0, "barcodeText", d)
       IN  SetY(p3, currentY)

NewLine(p) == [p EXCEPT !.x = p.lMargin, !.y = p.y + NotesLineHt]

\* html.Write(lineHt, notes): the lines of the text, the cursor staying on
\* the last one
RECURSIVE WriteLines(_, _, _, _)
WriteLines(p, n, kind, d) ==
  IF n = 0 THEN p
  ELSE IF n = 1 THEN CellFormat(p, 0, NotesLineHt, 0, kind, d)
  ELSE WriteLines(NewLine(CellFormat(p, 0, NotesLineHt, 0, kind, d)), n - 1, kind, d)

appendNotes(p, doc, d) ==
  IF doc.Notes = 0 THEN p
  ELSE LET p1 == SetRightMargin(SetX(MoveDown(p, 40 * MM), 10 * MM), 100 * MM)
           p2 == WriteLines(p1, doc.Notes, "notes", d)
       IN  SetRightMargin(p2, BaseMargin)

\* Discount.getDiscount: the kind and the number of the discount, the
\* percentage first when both are set
getDiscount(dis) == IF dis.Percent # Unset THEN <<"percent", dis.Percent>> ELSE <<"amount", dis.Amount>>

\* Item.TotalWithoutTax: unit cost times quantity
ItemTotalWithoutTax(it) == it.UnitCost * it.Quantity

\* the tax of an item: its percentage of the item's total
ItemTax(it) == IF it.Tax = NilTax THEN 0 ELSE (ItemTotalWithoutTax(it) * it.Tax) \div 100

\* the totals of the first k items
RECURSIVE SumTotalWithoutTax(_, _)
SumTotalWithoutTax(items, k) ==
  IF k = 0 THEN 0 ELSE ItemTotalWithoutTax(items[k]) + SumTotalWithoutTax(items, k - 1)

\* the taxes of the first k items
RECURSIVE SumTax(_, _)
SumTax(items, k) == IF k = 0 THEN 0 ELSE ItemTax(items[k]) + SumTax(items, k - 1)

\* Document.TotalWithoutTaxAndWithoutDocumentDiscount
TotalWithoutTaxAndWithoutDocumentDiscount(doc) == SumTotalWithoutTax(doc.Items, Len(doc.Items))

\* the amount the document-level discount takes off a total, at most the total
DiscountAmount(dis, total) ==
  IF dis.isNil THEN 0
  ELSE IF getDiscount(dis)[1] = "percent"
    THEN (total * getDiscount(dis)[2]) \div 100
    ELSE IF getDiscount(dis)[2] > total THEN total ELSE getDiscount(dis)[2]

\* Document.TotalWithoutTax
TotalWithoutTax(doc) ==
  TotalWithoutTaxAndWithoutDocumentDiscount(doc)
    - DiscountAmount(doc.Discount, TotalWithoutTaxAndWithoutDocumentDiscount(doc))

\* Document.Tax
Tax(doc) == SumTax(doc.Items, Len(doc.Items))

\* Document.TotalWithTax
TotalWithTax(doc) == TotalWithoutTax(doc) + Tax(doc)

\* one row of the totals block: label rectangle and cell, value rectangle
\* and cell, h high
TotalRow(p, d, opts, h, label, value) ==
  LET darkColor == getSafeColor(opts.DarkBgColor, DefaultDark)
      greyColor == getSafeColor(opts.GreyBgColor, DefaultGreyBg)
      p1 == Rect(SetFillColor(SetX(p, 120 * MM), "DarkBgColor", darkColor), label, d, h)
      p2 == CellFormat(p1, 38 * MM, h, 0, label, d)
      p3 == Rect(SetFillColor(SetX(p2, 162 * MM), "GreyBgColor", greyColor), value, d, h)
  IN  CellFormat(p3, 40 * MM, h, 0, value, d)

\* the discount row, from baseY down
totalDiscountRow(p, d, opts, baseY) ==
  LET darkColor == getSafeColor(opts.DarkBgColor, DefaultDark)
      greyColor == getSafeColor(opts.GreyBgColor, DefaultGreyBg)
      greyTextColor == getSafeColor(opts.GreyTextColor, DefaultGreyText)
      baseTextColor == getSafeColor(opts.BaseTextColor, DefaultBaseText)
      p1 == Rect(SetFillColor(SetXY(p, 120 * MM, baseY), "DarkBgColor", darkColor), "discountLabel", d, 15 * MM)
      p2 == CellFormat(p1, 38 * MM, 7500, 0, "discountLabel", d)
      p3 == SetTextColor(SetXY(p2, 120 * MM, baseY + 7500), "GreyTextColor", greyTextColor)
      p4 == CellFormat(p3, 38 * MM, 7500, 0, "discountDesc", d)
      p5 == SetTextColor(p4, "BaseTextColor", baseTextColor)
      p6 == SetX(SetY(p5, baseY), 162 * MM)
      p7 == Rect(SetFillColor(p6, "GreyBgColor", greyColor), "discountValue", d, 15 * MM)
      p8 == CellFormat(p7, 40 * MM, 15 * MM, 0, "discountValue", d)
  IN  MoveDown(p8, 15 * MM)

\* the branch on doc.Discount of appendTotal
totalDiscount(p, doc, d, opts) ==
  IF ~doc.Discount.isNil
    THEN Shows(totalDiscountRow(p, d, opts, p.y + 10 * MM), getDiscount(doc.Discount)[2])
    ELSE MoveDown(p, 10 * MM)

\* the rows of the totals block, one after another: the first row of the totals block
totalHTRow(p, doc, d, opts) ==
  Shows(TotalRow(SetTextColor(MoveDown(p, 0 - 35 * MM), "BaseTextColor",
                              getSafeColor(opts.BaseTextColor, DefaultBaseText)),
                 d, opts, 10 * MM, "totalHT", "totalHTValue"),
        TotalWithoutTaxAndWithoutDocumentDiscount(doc))

totalTaxRow(p, doc, d, opts) ==
  Shows(TotalRow(p, d, opts, 10 * MM, "totalTax", "totalTaxValue"), Tax(doc))

totalTTCRow(p, doc, d, opts) ==
  Shows(TotalRow(MoveDown(p, 10 * MM), d, opts, 10 * MM, "totalTTC", "totalTTCValue"), TotalWithTax(doc))

appendTotal(p, doc, d, opts) ==
  After({ totalTTCRow(p4, doc, d, opts) :
            p4 \in { totalTaxRow(p3, doc, d, opts) :
                       p3 \in { totalDiscount(p2, doc, d, opts) : p2 \in {totalHTRow(p, doc, d, opts)} } } })

appendPaymentTerm(p, doc, d) ==
  IF doc.PaymentTerm
    THEN CellFormat(SetX(MoveDown(p, 15 * MM), 120 * MM), 80 * MM, 4 * MM, 0, "paymentTerm", d)
    ELSE p

\* ------------------------------------------------------------------------
\* Inputs: contacts, documents, options, header and footer objects
\* ------------------------------------------------------------------------
Contact(name, phone, address, address2, country, info) ==
  [Name |-> name, Logo |-> "nil", Phone |-> phone, Address |-> address,
   Address2 |-> address2, Country |-> country, Info |-> info]

\* the contacts of the example program
ExampleCompany == Contact(TRUE, FALSE, TRUE, TRUE, TRUE, -1)
ExampleCustomer == Contact(TRUE, FALSE, TRUE, FALSE, TRUE, -1)
NamelessCompany == Contact(FALSE, FALSE, TRUE, TRUE, TRUE, -1)

Item(lines, unitCost, quantity, tax) ==
  [Lines |-> lines, UnitCost |-> unitCost, Quantity |-> quantity, Tax |-> tax]

NilDiscount == [isNil |-> TRUE, Percent |-> Unset, Amount |-> Unset]
PercentDiscount(percent) == [isNil |-> FALSE, Percent |-> percent, Amount |-> Unset]
AmountDiscount(amount) == [isNil |-> FALSE, Percent |-> Unset, Amount |-> amount]

\* the options a document of the example program is created with
DocOptions ==
  [AutoPrint |-> FALSE, BaseTextColor |-> <<>>, GreyTextColor |-> <<>>,
   GreyBgColor |-> <<>>, DarkBgColor |-> <<>>]

\* a document of nItems items like those of the example program, each
\* described on rowLines lines, with or without a discount of 15 percent
Document(company, description, nItems, rowLines, discount, notes, barCode, paymentTerm) ==
  [Company |-> company, Customer |-> ExampleCustomer, Description |-> description,
   Items |-> [k \in 1..nItems |-> Item(rowLines, 100, 1, 10)],
   Discount |-> IF discount THEN PercentDiscount(15) ELSE NilDiscount,
   DefaultTax |-> NilTax, Options |-> DocOptions, Notes |-> notes,
   BarCode |-> barCode, PaymentTerm |-> paymentTerm]

\* documents of a multi-document build: a bare one, the example invoice,
\* one with barcode and discount, one whose barcode cannot be encoded, and
\* one without a company name
MainDocs ==
  { Document(ExampleCompany, FALSE, 0, 1, FALSE, 0, "empty", FALSE),
    Document(ExampleCompany, TRUE, 1, 2, FALSE, 1, "empty", TRUE),
    Document(ExampleCompany, TRUE, 2, 1, TRUE, 1, "ok", TRUE),
    Document(ExampleCompany, FALSE, 1, 1, FALSE, 1, "fail", FALSE),
    Document(NamelessCompany, TRUE, 1, 1, FALSE, 0, "empty", FALSE) }

\* contacts with every combination of the optional fields
ContactPool ==
  { Contact(TRUE, ph, ad, ad /\ a2, ad /\ co, info) :
      ph \in BOOLEAN, ad \in BOOLEAN, a2 \in BOOLEAN, co \in BOOLEAN, info \in -1..MaxInfoLines }

\* documents that differ in their two contacts
ContactDocs ==
  { [Document(company, TRUE, 1, 1, FALSE, 0, "empty", FALSE) EXCEPT !.Customer = customer] :
      company \in ContactPool, customer \in ContactPool }

\* items with and without a tax of their own
ItemPool ==
  { Item(1, unitCost, quantity, tax) : unitCost \in {100, 300}, quantity \in {1, 2}, tax \in {NilTax, 10} }

DiscountPool ==
  { NilDiscount, PercentDiscount(0), PercentDiscount(15), AmountDiscount(0), AmountDiscount(50) }

\* documents that differ in their items, default tax and discount
TotalsDocs ==
  { [Document(ExampleCompany, TRUE, 0, 1, FALSE, 0, "empty", TRUE)
       EXCEPT !.Items = items, !.DefaultTax = defaultTax, !.Discount = discount] :
      items \in UNION { [1..n -> ItemPool] : n \in 0..MaxTotalItems },
      defaultTax \in {NilTax, 20}, discount \in DiscountPool }

\* documents with long item tables
PagingDocs ==
  { Document(ExampleCompany, TRUE, n, l, dis, notes, "empty", TRUE) :
      n \in 0..MaxItems, l \in {1, 3}, dis \in BOOLEAN, notes \in {0, 1, MaxNotesLines} }

ExampleOptions ==
  [AutoPrint |-> FALSE, BaseTextColor |-> <<6, 63, 156>>, GreyTextColor |-> <<161, 96, 149>>,
   GreyBgColor |-> <<171, 240, 129>>, DarkBgColor |-> <<176, 12, 20>>]

MainOptions == { [ExampleOptions EXCEPT !.AutoPrint = a] : a \in BOOLEAN }

Prefixes(c) == { SubSeq(c, 1, n) : n \in 0..Len(c) }

\* options whose color arrays have 0 to 3 entries
ColorOptions ==
  { [AutoPrint |-> FALSE, BaseTextColor |-> bt, GreyTextColor |-> gt, GreyBgColor |-> gb, DarkBgColor |-> db] :
      bt \in Prefixes(ExampleOptions.BaseTextColor), gt \in Prefixes(ExampleOptions.GreyTextColor),
      gb \in Prefixes(ExampleOptions.GreyBgColor), db \in Prefixes(ExampleOptions.DarkBgColor) }

ColorDocs ==
  { Document(ExampleCompany, TRUE, 1, 2, dis, 1, "empty", TRUE) : dis \in BOOLEAN }

NilHF == [isNil |-> TRUE, UseCustomFunc |-> FALSE, FontSize |-> 0, setErr |-> FALSE]

HeaderFooter(useCustomFunc, setErr) ==
  [isNil |-> FALSE, UseCustomFunc |-> useCustomFunc, FontSize |-> 0, setErr |-> setErr]

\* header and footer objects: plain, with a custom function, and one for
\* which defaults.Set reports an error
MainHF == { HeaderFooter(FALSE, FALSE), HeaderFooter(TRUE, FALSE), HeaderFooter(FALSE, TRUE) }
PlainHF == { HeaderFooter(FALSE, FALSE) }

\* ------------------------------------------------------------------------
\* State
\* ------------------------------------------------------------------------
VARIABLES Docs, Options, Header, Footer, pdf, pc, i, item, result

vars == <<Docs, Options, Header, Footer, pdf, pc, i, item, result>>

NoResult == [returned |-> FALSE, stream |-> FALSE, err |-> "nil"]

\* NewMultiDocument(options)
InitWith(optionPool) ==
  /\ Options \in optionPool
  /\ Docs = <<>>
  /\ Header = NilHF
  /\ Footer = NilHF
  /\ pdf = NewFpdf
  /\ pc = "setup"
  /\ i = 0
  /\ item = 0
  /\ result = NoResult

Init == InitWith(MainOptions)
InitPaging == InitWith({ExampleOptions})
InitColors == InitWith(ColorOptions)
InitContacts == InitWith({ExampleOptions})
InitTotals == InitWith({ExampleOptions})

\* ------------------------------------------------------------------------
\* The caller, before Build
\* ------------------------------------------------------------------------
AddDocumentFrom(pool, limit) ==
  /\ pc = "setup"
  /\ Len(Docs) < limit
  /\ \E doc \in pool : Docs' = Append(Docs, doc)
  /\ UNCHANGED <<Options, Header, Footer, pdf, pc, i, item, result>>

SetHeaderFrom(pool) ==
  /\ pc = "setup"
  /\ \E header \in pool : Header' = header
  /\ UNCHANGED <<Docs, Options, Footer, pdf, pc, i, item, result>>

SetFooterFrom(pool) ==
  /\ pc = "setup"
  /\ \E footer \in pool : Footer' = footer
  /\ UNCHANGED <<Docs, Options, Header, pdf, pc, i, item, result>>

AddDocument == AddDocumentFrom(MainDocs, MaxDocs)
SetHeader == SetHeaderFrom(MainHF)
SetFooter == SetFooterFrom(MainHF)

\* hf.ApplyFunc(md.GetPdf(), fn), on the header or on the footer object
ApplyFuncOn(hf) ==
  /\ pc = "setup"
  /\ ~hf.isNil
  /\ pdf' = [pdf EXCEPT !.headerFnc = [kind |-> "custom", doc |-> 0]]
  /\ UNCHANGED <<Docs, Options, Header, Footer, pc, i, item, result>>

ApplyFunc == \E hf \in {Header, Footer} : ApplyFuncOn(hf)

\* ------------------------------------------------------------------------
\* MultiDocument.Build
\* ------------------------------------------------------------------------
\* Build returning the stream together with the error
FailWithStream(err) ==
  /\ result' = [returned |-> TRUE, stream |-> TRUE, err |-> err]
  /\ pc' = "failed"

\* return nil, err
Fail(err) ==
  /\ result' = [returned |-> TRUE, stream |-> FALSE, err |-> err]
  /\ pc' = "failed"

\* entry of Build
Build ==
  /\ pc = "setup"
  /\ pc' = "loop"
  /\ i' = 1
  /\ UNCHANGED <<Docs, Options, Header, Footer, pdf, item, result>>

\* Build adding a page for the first document only
StartDocumentFirstPageOnly ==
  /\ pc = "loop"
  /\ i <= Len(Docs)
  /\ pdf' = IF i = 1 THEN AddPage(pdf, i) ELSE pdf
  /\ Docs' = [Docs EXCEPT ![i].Options = Options]
  /\ pc' = "validate"
  /\ UNCHANGED <<Options, Header, Footer, i, item, result>>

\* the loop body up to the call of buildDocument
StartDocument ==
  /\ pc = "loop"
  /\ i <= Len(Docs)
  /\ pdf' = AddPage(pdf, i)
  /\ Docs' = [Docs EXCEPT ![i].Options = Options]
  /\ pc' = "validate"
  /\ UNCHANGED <<Options, Header, Footer, i, item, result>>

\* buildDocument noting the validation error and rendering on
ValidateDocumentAndGoOn ==
  /\ pc = "validate"
  /\ pc' = "header"
  /\ result' = IF Validate(Docs[i]) THEN result ELSE [result EXCEPT !.err = "validation"]
  /\ UNCHANGED <<Docs, Options, Header, Footer, pdf, i, item>>

ValidateDocument ==
  /\ pc = "validate"
  /\ IF Validate(Docs[i])
       THEN pc' = "header" /\ UNCHANGED result
       ELSE Fail("validation")
  /\ UNCHANGED <<Docs, Options, Header, Footer, pdf, i, item>>

\* defaults.Set(hf): the font size gets its default when unset
defaultsSet(hf) == [hf EXCEPT !.FontSize = IF hf.FontSize = 0 THEN 10 ELSE hf.FontSize]

\* a callback of the renderer's own, for the document being built
Builtin(d) == [kind |-> "builtin", doc |-> d]

\* SetHeaderFunc of the built-in closure whatever UseCustomFunc says
registerHeaderAlways(p, hf, d) == [p EXCEPT !.headerFnc = Builtin(d)]

\* if !hf.UseCustomFunc { doc.pdf.SetHeaderFunc(...) }
registerHeader(p, hf, d) == IF ~hf.UseCustomFunc THEN [p EXCEPT !.headerFnc = Builtin(d)] ELSE p

\* if !hf.UseCustomFunc { doc.pdf.SetFooterFunc(...) }
registerFooter(p, hf, d) == IF ~hf.UseCustomFunc THEN [p EXCEPT !.footerFnc = Builtin(d)] ELSE p

applyHeader ==
  /\ pc = "header"
  /\ IF Header.isNil
       THEN pc' = "footer" /\ UNCHANGED <<Header, pdf, result>>
       ELSE IF Header.setErr
         THEN Fail("header") /\ UNCHANGED <<Header, pdf>>
         ELSE /\ Header' = defaultsSet(Header)
              /\ pdf' = registerHeader(pdf, Header, i)
              /\ pc' = "footer"
              /\ UNCHANGED result
  /\ UNCHANGED <<Docs, Options, Footer, i, item>>

applyFooter ==
  /\ pc = "footer"
  /\ IF Footer.isNil
       THEN pc' = "title" /\ UNCHANGED <<Footer, pdf, result>>
       ELSE IF Footer.setErr
         THEN Fail("footer") /\ UNCHANGED <<Footer, pdf>>
         ELSE /\ Footer' = defaultsSet(Footer)
              /\ pdf' = registerFooter(pdf, Footer, i)
              /\ pc' = "title"
              /\ UNCHANGED result
  /\ UNCHANGED <<Docs, Options, Header, i, item>>

Title ==
  /\ pc = "title"
  /\ pdf' = appendTitle(SetXY(pdf, 10 * MM, BaseMarginTop), i, Options)
  /\ pc' = "metas"
  /\ UNCHANGED <<Docs, Options, Header, Footer, i, item, result>>

Metas ==
  /\ pc = "metas"
  /\ pdf' = appendMetas(pdf, i)
  /\ pc' = "contacts"
  /\ UNCHANGED <<Docs, Options, Header, Footer, i, item, result>>

\* the cursor always below the customer block
cursorBelowCustomer(p, companyBottom) == SetXY(p, 10 * MM, p.y + 5 * MM)

\* the cursor below the taller contact block; p.y is customerBottom
cursorBelowContacts(p, companyBottom) ==
  IF p.y > companyBottom
    THEN SetXY(p, 10 * MM, p.y + 5 * MM)
    ELSE SetXY(p, 10 * MM, companyBottom + 5 * MM)

\* the customer block after the company block; p.y is companyBottom
customerAndCursor(p, doc, d, opts) == cursorBelowContacts(appendCustomerContactToDoc(p, doc, d, opts), p.y)

\* the customer block drawn before the company block
contactsCustomerFirst(p, doc, d, opts) ==
  MoveDown(After({ appendCompanyContactToDoc(customer, doc, d, opts) :
                     customer \in {appendCustomerContactToDoc(p, doc, d, opts)} }), 5 * MM)

\* both contact blocks and the cursor below the taller one
contactsAndCursor(p, doc, d, opts) ==
  After({ customerAndCursor(company, doc, d, opts) : company \in {appendCompanyContactToDoc(p, doc, d, opts)} })

Contacts ==
  /\ pc = "contacts"
  /\ IF ContactColorPanics(Options)
       THEN /\ pdf' = appendContactLogo(pdf, Docs[i].Company, 10 * MM, BaseMarginTop + 28 * MM, i)
            /\ pc' = "panic"
       ELSE /\ pdf' = contactsAndCursor(pdf, Docs[i], i, Options)
            /\ pc' = "description"
  /\ UNCHANGED <<Docs, Options, Header, Footer, i, item, result>>

Description ==
  /\ pc = "description"
  /\ pdf' = appendDescription(pdf, Docs[i], i)
  /\ pc' = "items"
  /\ UNCHANGED <<Docs, Options, Header, Footer, i, item, result>>

ItemsHead ==
  /\ pc = "items"
  /\ pdf' = appendItemsHead(pdf, i, Options)
  /\ item' = 1
  /\ pc' = "row"
  /\ UNCHANGED <<Docs, Options, Header, Footer, i, result>>

ItemRow ==
  /\ pc = "row"
  /\ item <= Len(Docs[i].Items)
  /\ Docs' = [Docs EXCEPT ![i].Items[item] = withDefaultTax(Docs[i].Items[item], Docs[i])]
  /\ pdf' = appendItemsRow(pdf, withDefaultTax(Docs[i].Items[item], Docs[i]), i, Options)
  /\ item' = item + 1
  /\ UNCHANGED <<Options, Header, Footer, pc, i, result>>

TrailingPageBreak ==
  /\ pc = "row"
  /\ item > Len(Docs[i].Items)
  /\ pdf' = trailingPageBreak(pdf, Docs[i], i)
  /\ pc' = "barcode"
  /\ UNCHANGED <<Docs, Options, Header, Footer, i, item, result>>

Barcode ==
  /\ pc = "barcode"
  /\ pdf' = appendBarcode(pdf, Docs[i], i)
  /\ pc' = "notes"
  /\ UNCHANGED <<Docs, Options, Header, Footer, i, item, result>>

Notes ==
  /\ pc = "notes"
  /\ pdf' = appendNotes(pdf, Docs[i], i)
  /\ pc' = "total"
  /\ UNCHANGED <<Docs, Options, Header, Footer, i, item, result>>

Total ==
  /\ pc = "total"
  /\ pdf' = appendTotal(pdf, Docs[i], i, Options)
  /\ pc' = "payment"
  /\ UNCHANGED <<Docs, Options, Header, Footer, i, item, result>>

\* the last block of buildDocument; Build goes on to the next document
PaymentTerm ==
  /\ pc = "payment"
  /\ pdf' = appendPaymentTerm(pdf, Docs[i], i)
  /\ pc' = "loop"
  /\ i' = i + 1
  /\ UNCHANGED <<Docs, Options, Header, Footer, item, result>>

\* after the loop: auto-print and the return of the stream
Finish ==
  /\ pc = "loop"
  /\ i > Len(Docs)
  /\ pdf' = [pdf EXCEPT !.js = Options.AutoPrint]
  /\ result' = [returned |-> TRUE, stream |-> TRUE, err |-> "nil"]
  /\ pc' = "done"
  /\ UNCHANGED <<Docs, Options, Header, Footer, i, item>>

\* the caller writes the stream out (pdf.OutputFileAndClose)
Output ==
  /\ pc = "done"
  /\ pdf' = Close(pdf)
  /\ pc' = "closed"
  /\ UNCHANGED <<Docs, Options, Header, Footer, i, item, result>>

BuildStep ==
  \/ Build
  \/ StartDocument
  \/ ValidateDocument
  \/ applyHeader
  \/ applyFooter
  \/ Title
  \/ Metas
  \/ Contacts
  \/ Description
  \/ ItemsHead
  \/ ItemRow
  \/ TrailingPageBreak
  \/ Barcode
  \/ Notes
  \/ Total
  \/ PaymentTerm
  \/ Finish
  \/ Output

Next ==
  \/ AddDocument
  \/ SetHeader
  \/ SetFooter
  \/ ApplyFunc
  \/ BuildStep

Spec == Init /\ [][Next]_vars

\* a single document with a long item table
AddPagingDocument == AddDocumentFrom(PagingDocs, 1)
SetPlainHeader == SetHeaderFrom(PlainHF)
SetPlainFooter == SetFooterFrom(PlainHF)

NextPaging ==
  \/ AddPagingDocument
  \/ SetPlainHeader
  \/ SetPlainFooter
  \/ BuildStep

SpecPaging == InitPaging /\ [][NextPaging]_vars

\* a single document, its contacts taken from ContactPool
AddContactDocument == AddDocumentFrom(ContactDocs, 1)

NextContacts ==
  \/ AddContactDocument
  \/ SetPlainHeader
  \/ SetPlainFooter
  \/ BuildStep

SpecContacts == InitContacts /\ [][NextContacts]_vars

\* a single document, its items, default tax and discount from TotalsDocs
AddTotalsDocument == AddDocumentFrom(TotalsDocs, 1)

NextTotals ==
  \/ AddTotalsDocument
  \/ BuildStep

SpecTotals == InitTotals /\ [][NextTotals]_vars

\* a single document rendered with short color arrays
AddColorDocument == AddDocumentFrom(ColorDocs, 1)

NextColors ==
  \/ AddColorDocument
  \/ BuildStep

SpecColors == InitColors /\ [][NextColors]_vars

\* ------------------------------------------------------------------------
\* Properties
\* ------------------------------------------------------------------------
Max(a, b) == IF a > b THEN a ELSE b

\* the description lines of the rows of a document whose rows are equal
RowLines(doc) == IF doc.Items = <<>> THEN 1 ELSE doc.Items[1].Lines

OpsSet == { pdf.ops[k] : k \in 1..Len(pdf.ops) }

CallbackKinds == {"header", "footer", "custom"}

ContentOps == { op \in OpsSet : op.kind \notin CallbackKinds }

CountOps(kind, d) == Cardinality({ k \in 1..Len(pdf.ops) : pdf.ops[k].kind = kind /\ pdf.ops[k].doc = d })

\* an upper bound of the vertical extent of a document, from its data
ContentBound(doc) ==
  BaseMarginTop + 28 * MM + Max(totalHeight(doc.Company), totalHeight(doc.Customer)) + 5 * MM
  + 10 * MM + 13 * MM + Len(doc.Items) * (3 * MM * RowLines(doc) + 6 * MM)
  + 40 * MM + doc.Notes * NotesLineHt + 45 * MM + 19 * MM

FitsOnePage(doc) == ContentBound(doc) <= MaxPageHeight

\* C1: when every document fits one page, the stream Build returns has
\* exactly one page per document, page k started for document k and holding
\* all of document k's content and nothing of another document
C1OnePagePerDocument ==
  (pc = "done" /\ \A k \in 1..Len(Docs) : FitsOnePage(Docs[k]))
    => /\ pdf.page = Len(Docs)
       /\ pdf.pageDoc = [k \in 1..Len(Docs) |-> k]
       /\ \A op \in ContentOps : op.page = op.doc
       /\ \A k \in 1..Len(Docs) : \E op \in ContentOps : op.kind = "title" /\ op.doc = k /\ op.page = k

C1Witness ==
  /\ pc = "done"
  /\ Len(Docs) >= 2
  /\ pdf.page = Len(Docs)
  /\ \A k \in 1..Len(Docs) : FitsOnePage(Docs[k])

\* C2: when Build fails with the validation error of document i, no page
\* of the page stream was started for document i
C2NoPageForInvalidDocument ==
  (pc = "failed" /\ result.err = "validation")
    => \A p \in 1..Len(pdf.pageDoc) : pdf.pageDoc[p] # i

\* some document of the sequence fails: validation, header or footer setup
AnyDocumentFails ==
  /\ Len(Docs) >= 1
  /\ \/ \E k \in 1..Len(Docs) : ~Validate(Docs[k])
     \/ ~Header.isNil /\ Header.setErr
     \/ ~Footer.isNil /\ Footer.setErr

RenderedCompletely(k) ==
  /\ CountOps("title", k) = 1
  /\ CountOps("metaRef", k) = 1
  /\ CountOps("contactRect", k) = 2
  /\ CountOps("description", k) = (IF Docs[k].Description THEN 1 ELSE 0)
  /\ CountOps("tableTitles", k) >= 1
  /\ CountOps("item", k) = Len(Docs[k].Items)
  /\ CountOps("barcode", k) = (IF Docs[k].BarCode = "ok" THEN 1 ELSE 0)
  /\ CountOps("notes", k) = Docs[k].Notes
  /\ CountOps("totalHTValue", k) = 2
  /\ CountOps("totalTaxValue", k) = 2
  /\ CountOps("totalTTCValue", k) = 2
  /\ CountOps("discountValue", k) = (IF ~Docs[k].Discount.isNil THEN 2 ELSE 0)
  /\ CountOps("paymentTerm", k) = (IF Docs[k].PaymentTerm THEN 1 ELSE 0)

\* C3: Build returns either an error and no stream, or the stream and no
\* error; it returns the error whenever some document fails, and when it
\* returns the stream every document was rendered completely
C3NoPartialSuccess ==
  result.returned
    => /\ result.stream <=> result.err = "nil"
       /\ AnyDocumentFails => ~result.stream /\ result.err # "nil"
       /\ result.stream => \A k \in 1..Len(Docs) : RenderedCompletely(k)

C3Witness ==
  /\ pc = "failed"
  /\ result.returned
  /\ result.err = "validation"
  /\ i = 2
  /\ RenderedCompletely(1)

\* C4: from the step in which document i fails on, the page stream does
\* not change: the failing step leaves the pages rendered so far as they
\* are, Build takes no further step, and the stream holds no page and no
\* draw call of a document after i
C4StopsAtFailingDocument ==
  [][ result'.err # "nil"
        => /\ pdf' = pdf
           /\ i' = i
           /\ \A p \in 1..Len(pdf'.pageDoc) : pdf'.pageDoc[p] <= i
           /\ \A k \in 1..Len(pdf'.ops) : pdf'.ops[k].doc <= i ]_vars

C4Witness ==
  /\ pc = "failed"
  /\ i = 2
  /\ Len(Docs) = 3
  /\ RenderedCompletely(1)

\* C5: with a shared header and a shared footer (neither a custom
\* function), every page of the written-out stream has the header and the
\* footer drawn on it, the first page included
C5HeaderFooterOnEveryPage ==
  (pc = "closed" /\ ~Header.isNil /\ ~Footer.isNil /\ ~Header.UseCustomFunc /\ ~Footer.UseCustomFunc)
    => \A p \in 1..pdf.page :
         /\ \E op \in OpsSet : op.kind = "header" /\ op.page = p
         /\ \E op \in OpsSet : op.kind = "footer" /\ op.page = p

ColorArray(opts, arr) ==
  CASE arr = "DarkBgColor" -> opts.DarkBgColor
    [] arr = "GreyBgColor" -> opts.GreyBgColor
    [] arr = "BaseTextColor" -> opts.BaseTextColor
    [] arr = "GreyTextColor" -> opts.GreyTextColor

Fallback(arr) ==
  CASE arr = "DarkBgColor" -> DefaultDark
    [] arr = "GreyBgColor" -> DefaultGreyBg
    [] arr = "BaseTextColor" -> DefaultBaseText
    [] arr = "GreyTextColor" -> DefaultGreyText

\* C6: no block reads a color array of fewer than 3 entries by index, and
\* every fill-color and text-color call that takes its color from such an
\* array uses the array's fallback triple
C6ShortColorsUseFallback ==
  /\ pc # "panic"
  /\ \A c \in pdf.colors : Len(ColorArray(Options, c.arr)) < 3 => c.rgb = Fallback(c.arr)

\* the draw calls a step adds
NewOps == SubSeq(pdf'.ops, Len(pdf.ops) + 1, Len(pdf'.ops))

NewKindsOnPage(q) == { NewOps[k].kind : k \in { j \in 1..Len(NewOps) : NewOps[j].page = q } }

NewCount(kind) == Cardinality({ k \in 1..Len(NewOps) : NewOps[k].kind = kind })

\* one pass of the item loop
IsItemRowStep == pc = "row" /\ item <= Len(Docs[i].Items) /\ item' = item + 1

\* the cursor after the row of this pass is rendered
RowHeight(doc) == 3 * MM * RowLines(doc)
RowEnd == pdf.y + RowHeight(Docs[i])

\* C7: a pass of the item loop whose row ends beyond MaxPageHeight starts
\* exactly one new page, draws on it the table header row once and neither
\* title, metadata nor contacts, and leaves the loop running with the cursor
\* below the header row; a pass whose row ends within MaxPageHeight starts
\* no page and draws no header row
C7PageBreakInItemLoop ==
  [][ IsItemRowStep
        => IF RowEnd > MaxPageHeight
             THEN /\ pdf'.page = pdf.page + 1
                  /\ NewCount("tableTitles") = 1
                  /\ NewCount("tableTitleCells") = 1
                  /\ "tableTitles" \in NewKindsOnPage(pdf'.page)
                  /\ NewKindsOnPage(pdf'.page) \subseteq {"header", "custom", "tableTitles", "tableTitleCells"}
                  /\ NewOps[Len(NewOps)].kind = "tableTitleCells"
                  /\ pdf'.y = NewOps[Len(NewOps)].y + 6 * MM
                  /\ pc' = "row"
             ELSE /\ pdf'.page = pdf.page
                  /\ NewCount("tableTitles") = 0
                  /\ pc' = "row" ]_vars

C7Witness ==
  /\ pc = "row"
  /\ pdf.page = 2
  /\ item <= Len(Docs[i].Items)
  /\ pdf.ops[Len(pdf.ops)].kind = "tableTitleCells"
  /\ pdf.ops[Len(pdf.ops)].page = 2

RowPitch(doc) == RowHeight(doc) + 6 * MM

\* the rows a page holds when its first row starts at y0: the rows up to
\* and including the first whose bottom edge is beyond MaxPageHeight
RowsFrom(y0, doc) == ((MaxPageHeight - y0 - RowHeight(doc)) \div RowPitch(doc)) + 2

\* the rows of a page that has the table header row at its top
RowsPerPage(doc) == RowsFrom(BaseMarginTop + 11 * MM, doc)

CeilDiv(a, b) == (a + b - 1) \div b

ItemLoopDone == pc = "row" /\ item > Len(Docs[i].Items)

OpsOnPage(kind, q) == { k \in 1..Len(pdf.ops) : pdf.ops[k].kind = kind /\ pdf.ops[k].page = q }

\* C8 as stated: N equal rows whose cumulative height exceeds the maximum
\* content height occupy ceil(N / rows_per_page) pages, with one table
\* header row on each
C8CeilPages ==
  (ItemLoopDone /\ Len(Docs[i].Items) * RowPitch(Docs[i]) > MaxPageHeight)
    => /\ pdf.page = CeilDiv(Len(Docs[i].Items), RowsPerPage(Docs[i]))
       /\ \A q \in 1..pdf.page : Cardinality(OpsOnPage("tableTitles", q)) = 1

\* the top of the first row of page q: below the page's table header row
FirstRowTop(q) ==
  LET k == CHOOSE j \in OpsOnPage("tableTitles", q) : TRUE
  IN  pdf.ops[k].y + (IF q = 1 THEN 8 * MM ELSE 6 * MM)

\* C8 amended: each page of the item table has the table header row once;
\* every page but the last holds RowsFrom(top of its first row) rows, the
\* last one ending beyond MaxPageHeight, and the last page holds the rest,
\* fewer than that (none when the last item filled the page before)
C8PagesOfItemTable ==
  ItemLoopDone
    => /\ \A q \in 1..pdf.page : Cardinality(OpsOnPage("tableTitles", q)) = 1
       /\ \A q \in 1..(pdf.page - 1) :
            Cardinality(OpsOnPage("item", q)) = RowsFrom(FirstRowTop(q), Docs[i])
       /\ Cardinality(OpsOnPage("item", pdf.page)) < RowsFrom(FirstRowTop(pdf.page), Docs[i])
       /\ CountOps("item", i) = Len(Docs[i].Items)

C8Witness ==
  /\ ItemLoopDone
  /\ pdf.page = 3
  /\ OpsOnPage("item", 3) # {}
  /\ Len(Docs[i].Items) * RowPitch(Docs[i]) > MaxPageHeight
  /\ pdf.page # CeilDiv(Len(Docs[i].Items), RowsPerPage(Docs[i]))

TotalKinds ==
  {"totalHT", "totalHTValue", "discountLabel", "discountDesc", "discountValue",
   "totalTax", "totalTaxValue", "totalTTC", "totalTTCValue"}

TotalOps(d) == { op \in OpsSet : op.doc = d /\ op.kind \in TotalKinds }

\* C9: the totals block of a document begins at or above MaxPageHeight
\* and lies on one page
C9TotalsOnOnePage ==
  pc = "payment"
    => /\ \A op \in TotalOps(i) : op.kind = "totalHT" => op.y <= MaxPageHeight
       /\ \A a, b \in TotalOps(i) : a.page = b.page

\* C10: every run of the header or footer callback leaves the cursor and
\* the left, top and right margins as it found them
C10CallbackRestoresCursorAndMargins ==
  \A op \in OpsSet : op.kind \in {"header", "footer"} => op.pre = op.post

BarcodeKinds == {"barcode", "barcodeText"}

\* C11: appendBarcode of a document whose payload is empty leaves the page
\* stream as it is (cursor, margins, registered images, draw calls), and no
\* barcode image or caption is ever drawn or registered for such a document
C11EmptyBarcodeIsNoOp ==
  /\ [][(pc = "barcode" /\ Docs[i].BarCode = "empty") => (pdf' = pdf /\ pc' = "notes")]_vars
  /\ [](\A d \in 1..Len(Docs) :
          Docs[d].BarCode = "empty"
            => /\ <<"barcode", d>> \notin pdf.images
               /\ \A op \in OpsSet : op.doc = d => op.kind \notin BarcodeKinds)

C11Witness ==
  /\ pc = "payment"
  /\ Docs[i].BarCode = "empty"
  /\ Docs[i].Notes > 0
  /\ CountOps("notes", i) > 0
  /\ CountOps("totalTTC", i) > 0

\* C12: when generateBarcode fails for a non-empty payload, appendBarcode
\* leaves the page stream as it does for the same document with an empty
\* payload, nothing of the barcode is drawn, and Build returns the stream
\* with a nil error
C12BarcodeFailureIsSwallowed ==
  /\ [][(pc = "barcode" /\ Docs[i].BarCode = "fail")
          => /\ pdf' = appendBarcode(pdf, [Docs[i] EXCEPT !.BarCode = "empty"], i)
             /\ pdf' = pdf
             /\ pc' = "notes"
             /\ result' = result]_vars
  /\ []((pc = "done" /\ \A d \in 1..Len(Docs) : Validate(Docs[d]))
          => /\ result.err = "nil" /\ result.stream
             /\ \A d \in 1..Len(Docs) :
                  Docs[d].BarCode = "fail"
                    => /\ <<"barcode", d>> \notin pdf.images
                       /\ \A op \in OpsSet : op.doc = d => op.kind \notin BarcodeKinds)

C12Witness ==
  /\ pc = "done"
  /\ result.err = "nil"
  /\ \E d \in 1..Len(Docs) : Docs[d].BarCode = "fail" /\ CountOps("totalTTC", d) > 0

ContactKinds == {"logo", "contactRect", "contactName", "contactPhone", "contactAddress", "contactInfo"}

\* the company block is drawn from x = 10, the customer block from x = 120
IsCompanyOp(op) == op.kind \in ContactKinds /\ op.x < 120 * MM
IsCustomerOp(op) == op.kind \in ContactKinds /\ op.x >= 120 * MM

\* the place of a draw call in the order of the blocks of a document
BlockRank(op) ==
  CASE op.kind \in {"titleRect", "title"} -> 1
    [] op.kind \in {"metaRef", "metaDate"} -> 2
    [] IsCompanyOp(op) -> 3
    [] IsCustomerOp(op) -> 4
    [] op.kind = "description" -> 5
    [] op.kind \in {"tableTitles", "tableTitleCells", "item", "itemTax", "itemDescription"} -> 6
    [] op.kind \in BarcodeKinds -> 7
    [] op.kind = "notes" -> 8
    [] op.kind \in TotalKinds -> 9
    [] op.kind = "paymentTerm" -> 10
    [] OTHER -> 0

IsContent(op) == op.kind \notin CallbackKinds

\* the draw calls of the blocks, in the order they were made
ContentSeq == SelectSeq(pdf.ops, IsContent)

RanksOf(d) == { BlockRank(op) : op \in { o \in OpsSet : o.doc = d /\ o.kind \notin CallbackKinds } }

LastOf(seq) == IF seq = <<>> THEN <<>> ELSE <<seq[Len(seq)]>>

\* no draw call is followed by one of an earlier block of the same document
\* or by one of an earlier document
InBlockOrder(seq) ==
  \A k \in 1..Len(seq) :
    /\ BlockRank(seq[k]) >= 1
    /\ k > 1 => IF seq[k - 1].doc = seq[k].doc
                  THEN BlockRank(seq[k - 1]) <= BlockRank(seq[k])
                  ELSE seq[k - 1].doc < seq[k].doc

\* C13: the draw calls of a document come in the order title, metadata,
\* company contact, customer contact, description, item table, barcode,
\* notes, totals, payment term: the draw calls of a step are in this order
\* and none of them belongs to a block before that of the last draw call
\* made earlier
C13BlocksInFixedOrder ==
  [][InBlockOrder(LastOf(ContentSeq) \o SelectSeq(NewOps, IsContent))]_vars

C13Witness ==
  /\ pc = "done"
  /\ \E d \in 1..Len(Docs) : RanksOf(d) = 1..10

\* the values the two contact blocks return at the "contacts" step
CompanyBottom == appendCompanyContactToDoc(pdf, Docs[i], i, Options).y
CustomerBottom ==
  After({ appendCustomerContactToDoc(company, Docs[i], i, Options) :
            company \in {appendCompanyContactToDoc(pdf, Docs[i], i, Options)} }).y

\* C14: after both contact blocks the cursor is at x = 10 and at
\* y = max(company_bottom, customer_bottom) + 5
C14CursorBelowTallerContact ==
  [][(pc = "contacts" /\ pc' = "description")
       => /\ pdf'.x = 10 * MM
          /\ pdf'.y = Max(CompanyBottom, CustomerBottom) + 5 * MM]_vars

\* the company block ended lower than the customer block
C14Witness ==
  /\ pc = "description"
  /\ \E a, b \in OpsSet :
       /\ IsCompanyOp(a) /\ IsCustomerOp(b) /\ a.kind = "contactInfo" /\ b.kind = "contactName"
       /\ \A o \in OpsSet : IsCustomerOp(o) => o.y <= b.y
       /\ pdf.y = a.y + a.h + 5 * MM

\* the draw calls of one contact block
BlockOps(company) ==
  { op \in OpsSet : IF company THEN IsCompanyOp(op) ELSE IsCustomerOp(op) }

MaxOf(S) == CHOOSE m \in S : \A n \in S : n <= m

ContentBottom(block) == MaxOf({ op.y + op.h : op \in { o \in block : o.kind # "contactRect" } })

RectBottom(block) == MaxOf({ op.y + op.h : op \in { o \in block : o.kind = "contactRect" } })

\* C15: the bottom edge of the background rectangle of each contact block
\* is the bottom of the last line drawn in the block
C15ContactRectFitsContent ==
  pc = "description"
    => \A company \in BOOLEAN : RectBottom(BlockOps(company)) = ContentBottom(BlockOps(company))

\* C17: from the call of Build on, the Header and Footer objects keep the
\* values of their fields
C17HeaderFooterNotMutated ==
  [][pc # "setup" => (Header' = Header /\ Footer' = Footer)]_vars

\* C18: during Build, a Header with UseCustomFunc leaves the registered
\* header callback as it is, and a Footer with UseCustomFunc leaves the
\* registered footer callback as it is
C18CustomCallbackKept ==
  [][pc # "setup"
       => /\ Header.UseCustomFunc => pdf'.headerFnc = pdf.headerFnc
          /\ Footer.UseCustomFunc => pdf'.footerFnc = pdf.footerFnc]_vars

C18Witness ==
  /\ pc = "done"
  /\ Len(Docs) >= 2
  /\ Header.UseCustomFunc
  /\ pdf.headerFnc.kind = "custom"
  /\ \E op \in OpsSet : op.kind = "custom" /\ op.page = 2

\* C16: from the call of Build on, every field of every Document and of
\* its items keeps its value
C16DocumentReadOnly ==
  [][pc # "setup" => Docs' = Docs]_vars

\* the numbers the cells of a kind show for the document being built
ShownSet(kind) == { op.val : op \in { o \in OpsSet : o.doc = i /\ o.kind = kind /\ o.val # NoVal } }

\* the number shown in the cell of a kind, 0 when there is no such cell
Shown(kind) == IF ShownSet(kind) = {} THEN 0 ELSE CHOOSE v \in ShownSet(kind) : TRUE

\* C19: the totals block shows total_with_tax = total_without_tax -
\* discount_amount + tax_total; with no items every total shown is 0; with
\* a document discount of zero the discount shown is 0
C19ShownTotalsConsistent ==
  pc = "payment"
    => /\ Shown("totalTTCValue") = Shown("totalHTValue") - Shown("discountValue") + Shown("totalTaxValue")
       /\ Docs[i].Items = <<>>
            => /\ Shown("totalHTValue") = 0 /\ Shown("discountValue") = 0
               /\ Shown("totalTaxValue") = 0 /\ Shown("totalTTCValue") = 0
       /\ (~Docs[i].Discount.isNil /\ getDiscount(Docs[i].Discount)[2] = 0)
            => /\ Shown("discountValue") = 0
               /\ Shown("totalTTCValue") = Shown("totalHTValue") + Shown("totalTaxValue")

\* the tax an item is to be shown with: its own, or else the document's
ExpectedTax(it, doc) == IF it.Tax = NilTax THEN doc.DefaultTax ELSE it.Tax

\* C20: each pass of the item loop draws one tax cell, showing the item's
\* own Tax when it has one and the document's DefaultTax when it has none
C20ItemTaxOrDefault ==
  [][IsItemRowStep
       => /\ NewCount("itemTax") = 1
          /\ \E k \in 1..Len(NewOps) :
               /\ NewOps[k].kind = "itemTax"
               /\ NewOps[k].val = ExpectedTax(Docs[i].Items[item], Docs[i])]_vars

C20Witness ==
  /\ pc = "total"
  /\ Docs[i].DefaultTax = 20
  /\ ShownSet("itemTax") = {10, 20}

\* C23: ApplyFunc called on the header object installs the header callback
\* and leaves the footer callback as it was; called on the footer object it
\* installs the footer callback and leaves the header callback as it was
C23ApplyFuncRegistersForItsPhase ==
  [][/\ ApplyFuncOn(Header)
          => (pdf'.headerFnc.kind = "custom" /\ pdf'.footerFnc = pdf.footerFnc)
     /\ ApplyFuncOn(Footer)
          => (pdf'.footerFnc.kind = "custom" /\ pdf'.headerFnc = pdf.headerFnc)]_vars

\* the background rectangles the step drew for the company or for the
\* customer block
NewContactRects(company) ==
  { NewOps[k] : k \in { j \in 1..Len(NewOps) :
                           /\ NewOps[j].kind = "contactRect"
                           /\ company <=> NewOps[j].x < 120 * MM } }

\* C22: the value appendContactTODoc returns is at or below the bottom edge
\* of the rectangle it drew, for the company and for the customer, and the
\* cursor set after the contacts is at or below both bottom edges
C22ContactReturnBelowRect ==
  [][(pc = "contacts" /\ pc' = "description")
       => /\ \A r \in NewContactRects(TRUE) : CompanyBottom >= r.y + r.h
          /\ \A r \in NewContactRects(FALSE) : CustomerBottom >= r.y + r.h
          /\ \A r \in NewContactRects(TRUE) \cup NewContactRects(FALSE) : pdf'.y >= r.y + r.h]_vars

ItemRowKinds == {"item", "itemTax", "itemDescription"}

\* the cells of the item rows of the document being built that lie on page q
ItemRowOpsOn(q) == { op \in OpsSet : op.doc = i /\ op.page = q /\ op.kind \in ItemRowKinds }

\* the label and the value of the first row of the totals block
FirstTotalRowOps(ops) == { op \in ops : op.doc = i /\ op.kind \in {"totalHT", "totalHTValue"} }

\* C21: the first row of the totals block is drawn at or below the top
\* margin of its page and at or below the end of every item row on that
\* page
C21TotalsBelowItemsAndMargin ==
  pc = "payment"
    => \A t \in FirstTotalRowOps(OpsSet) :
         /\ t.y >= pdf.tMargin
         /\ \A row \in ItemRowOpsOn(t.page) : t.y >= row.y + row.h
====
